---- MODULE Spec2Model ----
(***************************************************************************)
(* Model of package deckformat (go-apiops): the tool identity record, the  *)
(* compatibility checks between two deck files and the history ledger.     *)
(*                                                                         *)
(* Go strings are sequences of one-character strings, so that formatting,  *)
(* splitting and integer parsing are computed character by character.      *)
(* A panic is recorded in the result of the call (panicked = TRUE); the    *)
(* package state is what the panicking call left behind.                   *)
(***************************************************************************)
EXTENDS Integers, Sequences, FiniteSets, TLC

VARIABLES
  toolInfo,   \* the package variable toolInfo: [name, version, commit]
  result,     \* the last completed call: its name, arguments and outcome
  filedata,   \* the deck file at hand (a Go map): data1 of the compatibility checks
  otherdata,  \* the second deck file (data2) of the compatibility checks
  heap,       \* the slices and maps that values refer to, by address
  hist,       \* the caller's local slice variable (a value), as HistoryGet returned it
  serialized, \* whether the embedding application serializes ToolVersionSet calls
  pc,         \* per concurrent caller: its position inside ToolVersionSet
  callArgs    \* per concurrent caller: the (name, version, commit) it passes

vars == <<toolInfo, result, filedata, otherdata, heap, hist, serialized, pc, callArgs>>

fileVars == <<filedata, otherdata, heap, hist>>

raceVars == <<serialized, pc, callArgs>>

----------------------------------------------------------------------------
(* Bounds of the model.                                                    *)

\* Longest _format_version string handed to ParseFormatVersion.
MaxLen == 5

\* Most objects (slices, maps) the heap holds.
MaxHeap == 7

----------------------------------------------------------------------------
(* Values.                                                                 *)

VersionKey == "_format_version"

TransformKey == "_transform"

HistoryKey == "_ignore"

\* The Go nil interface value: also what a map lookup of a missing key gives.
NilValue == [t |-> "nil"]

StringValue(s) == [t |-> "string", v |-> s]

BoolValue(b) == [t |-> "bool", v |-> b]

NumberValue(n) == [t |-> "number", v |-> n]

\* A slice or a map, held by reference.
RefValue(a) == [t |-> "ref", a |-> a]

\* A Go map[string]interface{}: the nil map, or its keys and values.
NoEntries == [k \in {} |-> NilValue]

NilMap == [isNil |-> TRUE, kv |-> NoEntries]

EmptyMap == [isNil |-> FALSE, kv |-> NoEntries]

\* data[key]: the value, or nil when the key is missing (also of the nil map).
Lookup(data, key) == IF key \in DOMAIN data.kv THEN data.kv[key] ELSE NilValue

HasKey(data, key) == key \in DOMAIN data.kv

\* data[key] = value, on a non-nil map.
MapSet(data, key, value) ==
  [data EXCEPT !.kv = [k \in DOMAIN data.kv \cup {key} |->
                         IF k = key THEN value ELSE data.kv[k]]]

\* delete(data, key): no effect when the key is missing or the map is nil.
MapDelete(data, key) ==
  [data EXCEPT !.kv = [k \in DOMAIN data.kv \ {key} |-> data.kv[k]]]

NoResult == [op |-> "none"]

NoArgs == <<>>

----------------------------------------------------------------------------
(* Tool identity.                                                          *)

NoToolInfo == [name |-> <<>>, version |-> <<>>, commit |-> <<>>]

\* The guard of ToolVersionSet: whether the call panics.
ToolVersionSetPanicsNoSetCheck(info, name) == name = <<>>

ToolVersionSetPanics(info, name) == info.name # <<>> \/ name = <<>>

\* ToolVersionGet on the stored identity.
ToolVersionGetNoCheck(info) ==
  [panicked |-> FALSE, value |-> <<info.name, info.version, info.commit>>]

ToolVersionGet(info) ==
  IF info.name = <<>>
  THEN [panicked |-> TRUE, value |-> NilValue]
  ELSE [panicked |-> FALSE, value |-> <<info.name, info.version, info.commit>>]

\* ToolVersionString on the stored identity.
ToolVersionString(info) ==
  LET g == ToolVersionGet(info) IN
  IF g.panicked THEN g
  ELSE LET n == g.value[1]
           v == g.value[2]
           c == g.value[3]
       IN IF c # <<>>
          THEN [panicked |-> FALSE,
                value |-> n \o <<" ">> \o v \o <<" ", "(">> \o c \o <<")">>]
          ELSE IF v # <<>>
          THEN [panicked |-> FALSE, value |-> n \o <<" ">> \o v]
          ELSE [panicked |-> FALSE, value |-> n]

\* HistoryNewEntry(cmd) on the stored identity.
HistoryNewEntry(info, cmd) ==
  LET s == ToolVersionString(info) IN
  IF s.panicked THEN s
  ELSE [panicked |-> FALSE, value |-> [tool |-> s.value, command |-> cmd]]

Names == {<<>>, <<"k">>, <<"d", "k">>}

Versions == {<<>>, <<"1", ".", "0">>}

Commits == {<<>>, <<"a", "b">>}

Commands == {<<"o", "2", "k">>, <<"m">>}

DoToolVersionSet(name, version, commit) ==
  /\ IF ToolVersionSetPanics(toolInfo, name)
     THEN /\ toolInfo' = toolInfo
          /\ result' = [op |-> "ToolVersionSet", args |-> <<name, version, commit>>,
                        panicked |-> TRUE, value |-> NilValue]
     ELSE /\ toolInfo' = [name |-> name, version |-> version, commit |-> commit]
          /\ result' = [op |-> "ToolVersionSet", args |-> <<name, version, commit>>,
                        panicked |-> FALSE, value |-> NilValue]
  /\ UNCHANGED <<fileVars, raceVars>>

DoToolVersionGet ==
  /\ result' = [op |-> "ToolVersionGet", args |-> NoArgs,
                panicked |-> ToolVersionGet(toolInfo).panicked,
                value |-> ToolVersionGet(toolInfo).value]
  /\ UNCHANGED <<toolInfo, fileVars, raceVars>>

DoToolVersionString ==
  /\ result' = [op |-> "ToolVersionString", args |-> NoArgs,
                panicked |-> ToolVersionString(toolInfo).panicked,
                value |-> ToolVersionString(toolInfo).value]
  /\ UNCHANGED <<toolInfo, fileVars, raceVars>>

DoHistoryNewEntry(cmd) ==
  /\ result' = [op |-> "HistoryNewEntry", args |-> <<cmd>>,
                panicked |-> HistoryNewEntry(toolInfo, cmd).panicked,
                value |-> HistoryNewEntry(toolInfo, cmd).value]
  /\ UNCHANGED <<toolInfo, fileVars, raceVars>>

InitIdentity ==
  /\ toolInfo = NoToolInfo
  /\ result = NoResult
  /\ filedata = EmptyMap
  /\ otherdata = EmptyMap
  /\ heap = <<>>
  /\ hist = NilValue
  /\ serialized = TRUE
  /\ pc = <<>>
  /\ callArgs = <<>>

NextIdentity ==
  \/ \E n \in Names, v \in Versions, c \in Commits : DoToolVersionSet(n, v, c)
  \/ DoToolVersionGet
  \/ DoToolVersionString
  \/ \E cmd \in Commands : DoHistoryNewEntry(cmd)

SpecIdentity == InitIdentity /\ [][NextIdentity]_vars

Triple(info) == <<info.name, info.version, info.commit>>

\* C1: the tool identity is write-once. A stored identity never changes
\* again; a ToolVersionSet call succeeds only from the unset state and then
\* stores exactly its arguments (so at most one call of any sequence
\* succeeds); a call made once the identity is set, or with an empty name,
\* panics and leaves the identity as it was; a ToolVersionGet made once the
\* identity is set returns the stored triple.
C1_WriteOnce ==
  [][ /\ toolInfo.name # <<>> => toolInfo' = toolInfo
      /\ (result'.op = "ToolVersionSet" /\ ~result'.panicked) =>
            /\ toolInfo.name = <<>>
            /\ result'.args[1] # <<>>
            /\ Triple(toolInfo') = result'.args
      /\ (result'.op = "ToolVersionSet" /\ toolInfo.name # <<>>) =>
            result'.panicked
      /\ (result'.op = "ToolVersionSet" /\ result'.args[1] = <<>>) =>
            result'.panicked /\ toolInfo' = toolInfo
      /\ (result'.op = "ToolVersionGet" /\ toolInfo.name # <<>>) =>
            ~result'.panicked /\ result'.value = Triple(toolInfo)
    ]_vars

\* C1's case: a later ToolVersionSet with other arguments and a non-empty
\* name has failed, and the identity is still the one of the first call.
C1_Witness ==
  /\ result.op = "ToolVersionSet"
  /\ result.panicked
  /\ result.args[1] # <<>>
  /\ toolInfo.name # <<>>
  /\ Triple(toolInfo) # result.args

\* C2: ToolVersionGet, ToolVersionString and HistoryNewEntry each panic and
\* return no value exactly when no identity is set; a successful
\* HistoryNewEntry(cmd) returns a map with exactly the keys tool (the
\* formatted identity) and command (cmd).
C2_ReadBeforeSet ==
  result.op \in {"ToolVersionGet", "ToolVersionString", "HistoryNewEntry"} =>
    /\ result.panicked <=> toolInfo.name = <<>>
    /\ result.panicked => result.value = NilValue
    /\ (result.op = "ToolVersionGet" /\ ~result.panicked) =>
          result.value = Triple(toolInfo)
    /\ (result.op = "HistoryNewEntry" /\ ~result.panicked) =>
          /\ DOMAIN result.value = {"tool", "command"}
          /\ result.value.command = result.args[1]
          /\ result.value.tool = ToolVersionString(toolInfo).value

\* C2's case: HistoryNewEntry has succeeded on a set identity.
C2_Witness ==
  /\ result.op = "HistoryNewEntry"
  /\ ~result.panicked
  /\ toolInfo.name # <<>>

\* The display string as documented: "name version (commit)" when version
\* and commit are both non-empty, "name version" when only the version is,
\* else the name alone.
FormatIdentityAsDocumented(info) ==
  IF info.version # <<>> /\ info.commit # <<>>
  THEN info.name \o <<" ">> \o info.version \o <<" ", "(">> \o info.commit \o <<")">>
  ELSE IF info.version # <<>>
  THEN info.name \o <<" ">> \o info.version
  ELSE info.name

\* C3: for every stored identity ToolVersionString returns
\* "name version (commit)" if version and commit are both non-empty,
\* "name version" if only the version is non-empty, and otherwise the name
\* alone (also when the version is empty and the commit is not).
C3_FormatIdentity ==
  (result.op = "ToolVersionString" /\ ~result.panicked) =>
    result.value = FormatIdentityAsDocumented(toolInfo)

\* C3 where the code agrees with it: with a non-empty version, or with an
\* empty commit, the string is the documented one.
C3_FormatWithVersion ==
  (/\ result.op = "ToolVersionString"
   /\ ~result.panicked
   /\ (toolInfo.version # <<>> \/ toolInfo.commit = <<>>)) =>
    result.value = FormatIdentityAsDocumented(toolInfo)

----------------------------------------------------------------------------
(* Compatibility and versioning between deck files.                        *)

\* jsonbasics.GetBoolField: the boolean stored under the key, or an error.
GetBoolField(data, key) ==
  LET value == Lookup(data, key) IN
  IF value.t = "bool"
  THEN [err |-> NilValue, v |-> value.v]
  ELSE [err |-> [msg |-> "expected key to be a boolean"], v |-> FALSE]

\* jsonbasics.GetStringField: the string stored under the key, or an error.
GetStringField(data, key) ==
  LET value == Lookup(data, key) IN
  IF value.t = "string"
  THEN [err |-> NilValue, v |-> value.v]
  ELSE [err |-> [msg |-> "expected key to be a string"], v |-> <<>>]

TransformError ==
  [msg |-> "files with '_transform: true' (default) and '_transform: false' are not compatible"]

FormatError ==
  [msg |-> "expected field '._format_version' to be a string in 'x.y' format"]

MajorError(major1, minor1, major2, minor2) ==
  [msg |-> "major versions are incompatible", v1 |-> <<major1, minor1>>,
   v2 |-> <<major2, minor2>>]

\* fmt.Errorf("files are incompatible; %w", err)
WrapIncompatible(err) == [msg |-> "files are incompatible", wrapped |-> err]

\* strings.Split(s, "."): the substrings between the dots, at least one.
RECURSIVE Split(_)
Split(s) ==
  IF \A i \in 1..Len(s) : s[i] # "."
  THEN <<s>>
  ELSE LET i == CHOOSE k \in 1..Len(s) :
                   s[k] = "." /\ \A j \in 1..(k - 1) : s[j] # "."
       IN <<SubSeq(s, 1, i - 1)>> \o Split(SubSeq(s, i + 1, Len(s)))

DigitValue ==
  [c \in {"0", "1", "2", "3", "4", "5", "6", "7", "8", "9"} |->
     CASE c = "0" -> 0 [] c = "1" -> 1 [] c = "2" -> 2 [] c = "3" -> 3
       [] c = "4" -> 4 [] c = "5" -> 5 [] c = "6" -> 6 [] c = "7" -> 7
       [] c = "8" -> 8 [] c = "9" -> 9]

RECURSIVE DecimalValue(_)
DecimalValue(s) ==
  IF Len(s) = 0 THEN 0
  ELSE 10 * DecimalValue(SubSeq(s, 1, Len(s) - 1)) + DigitValue[s[Len(s)]]

\* The decimal digits of the largest Go int, 2^63 - 1, and of 2^63.
MaxIntDigits ==
  <<"9", "2", "2", "3", "3", "7", "2", "0", "3", "6",
    "8", "5", "4", "7", "7", "5", "8", "0", "7">>

MinIntDigits ==
  <<"9", "2", "2", "3", "3", "7", "2", "0", "3", "6",
    "8", "5", "4", "7", "7", "5", "8", "0", "8">>

RECURSIVE StripZeros(_)
StripZeros(s) ==
  IF Len(s) > 1 /\ s[1] = "0" THEN StripZeros(Tail(s)) ELSE s

\* Whether the number written by the digits s exceeds the one written by limit.
Exceeds(s, limit) ==
  LET d == StripZeros(s) IN
  \/ Len(d) > Len(limit)
  \/ /\ Len(d) = Len(limit)
     /\ \E i \in 1..Len(d) :
          /\ DigitValue[d[i]] > DigitValue[limit[i]]
          /\ \A j \in 1..(i - 1) : d[j] = limit[j]

\* strconv.Atoi: an optional sign, then one or more decimal digits, in the
\* range of int.
Atoi(s) ==
  LET neg == Len(s) > 0 /\ s[1] = "-"
      signed == Len(s) > 0 /\ s[1] \in {"+", "-"}
      digits == IF signed THEN Tail(s) ELSE s
  IN IF Len(digits) = 0 \/ \E i \in 1..Len(digits) : digits[i] \notin DOMAIN DigitValue
     THEN [ok |-> FALSE, n |-> 0]
     ELSE IF Exceeds(digits, IF neg THEN MinIntDigits ELSE MaxIntDigits)
     THEN [ok |-> FALSE, n |-> 0]
     ELSE [ok |-> TRUE,
           n |-> IF neg THEN 0 - DecimalValue(digits) ELSE DecimalValue(digits)]

ParseFailed == [err |-> FormatError, major |-> 0, minor |-> 0]

\* ParseFormatVersion: (major, minor, err) of the file's _format_version.
ParseFormatVersion(data) ==
  LET f == GetStringField(data, VersionKey) IN
  IF f.err # NilValue THEN ParseFailed
  ELSE LET elem == Split(f.v) IN
       IF Len(elem) > 2 THEN ParseFailed
       ELSE LET major == Atoi(elem[1]) IN
            IF ~major.ok THEN ParseFailed
            ELSE IF Len(elem) > 1
            THEN LET minor == Atoi(elem[2]) IN
                 IF ~minor.ok THEN ParseFailed
                 ELSE [err |-> NilValue, major |-> major.n, minor |-> minor.n]
            ELSE [err |-> NilValue, major |-> major.n, minor |-> 0]

\* CompatibleTransform: nil, or the error; panics on a nil map.
CompatibleTransform(data1, data2) ==
  IF data1.isNil \/ data2.isNil THEN [panicked |-> TRUE, err |-> NilValue]
  ELSE LET t1 == IF Lookup(data1, TransformKey) # NilValue
                 THEN GetBoolField(data1, TransformKey)
                 ELSE [err |-> NilValue, v |-> TRUE]
           t2 == IF Lookup(data2, TransformKey) # NilValue
                 THEN GetBoolField(data2, TransformKey)
                 ELSE [err |-> NilValue, v |-> TRUE]
       IN IF t1.err # NilValue THEN [panicked |-> FALSE, err |-> t1.err]
          ELSE IF t2.err # NilValue THEN [panicked |-> FALSE, err |-> t2.err]
          ELSE IF t1.v # t2.v THEN [panicked |-> FALSE, err |-> TransformError]
          ELSE [panicked |-> FALSE, err |-> NilValue]

\* CompatibleVersion comparing the minor components too.
CompatibleVersionExact(data1, data2) ==
  IF data1.isNil \/ data2.isNil THEN [panicked |-> TRUE, err |-> NilValue]
  ELSE IF Lookup(data1, VersionKey) = NilValue
  THEN IF Lookup(data2, VersionKey) = NilValue
       THEN [panicked |-> FALSE, err |-> NilValue]
       ELSE [panicked |-> FALSE, err |-> ParseFormatVersion(data2).err]
  ELSE IF Lookup(data2, VersionKey) = NilValue
  THEN [panicked |-> FALSE, err |-> ParseFormatVersion(data1).err]
  ELSE LET p1 == ParseFormatVersion(data1)
           p2 == ParseFormatVersion(data2)
       IN IF p1.err # NilValue THEN [panicked |-> FALSE, err |-> p1.err]
          ELSE IF p2.err # NilValue THEN [panicked |-> FALSE, err |-> p2.err]
          ELSE IF p1.major # p2.major \/ p1.minor # p2.minor
          THEN [panicked |-> FALSE,
                err |-> MajorError(p1.major, p1.minor, p2.major, p2.minor)]
          ELSE [panicked |-> FALSE, err |-> NilValue]

\* CompatibleVersion: nil, or the error; panics on a nil map.
CompatibleVersion(data1, data2) ==
  IF data1.isNil \/ data2.isNil THEN [panicked |-> TRUE, err |-> NilValue]
  ELSE IF Lookup(data1, VersionKey) = NilValue
  THEN IF Lookup(data2, VersionKey) = NilValue
       THEN [panicked |-> FALSE, err |-> NilValue]
       ELSE [panicked |-> FALSE, err |-> ParseFormatVersion(data2).err]
  ELSE IF Lookup(data2, VersionKey) = NilValue
  THEN [panicked |-> FALSE, err |-> ParseFormatVersion(data1).err]
  ELSE LET p1 == ParseFormatVersion(data1)
           p2 == ParseFormatVersion(data2)
       IN IF p1.err # NilValue THEN [panicked |-> FALSE, err |-> p1.err]
          ELSE IF p2.err # NilValue THEN [panicked |-> FALSE, err |-> p2.err]
          ELSE IF p1.major # p2.major
          THEN [panicked |-> FALSE,
                err |-> MajorError(p1.major, p1.minor, p2.major, p2.minor)]
          ELSE [panicked |-> FALSE, err |-> NilValue]

\* CompatibleFile with the version check made first.
CompatibleFileVersionFirst(data1, data2) ==
  LET v == CompatibleVersion(data1, data2) IN
  IF v.panicked
  THEN [panicked |-> TRUE, err |-> NilValue, calls |-> <<"CompatibleVersion">>]
  ELSE IF v.err # NilValue
  THEN [panicked |-> FALSE, err |-> WrapIncompatible(v.err),
        calls |-> <<"CompatibleVersion">>]
  ELSE LET t == CompatibleTransform(data1, data2) IN
       [panicked |-> FALSE,
        err |-> IF t.err # NilValue THEN WrapIncompatible(t.err) ELSE NilValue,
        calls |-> <<"CompatibleVersion", "CompatibleTransform">>]

\* CompatibleFile: nil, or the wrapped error of the first failing check;
\* calls lists the checks it evaluated, in order.
CompatibleFile(data1, data2) ==
  LET t == CompatibleTransform(data1, data2) IN
  IF t.panicked
  THEN [panicked |-> TRUE, err |-> NilValue, calls |-> <<"CompatibleTransform">>]
  ELSE IF t.err # NilValue
  THEN [panicked |-> FALSE, err |-> WrapIncompatible(t.err),
        calls |-> <<"CompatibleTransform">>]
  ELSE LET v == CompatibleVersion(data1, data2) IN
       [panicked |-> FALSE,
        err |-> IF v.err # NilValue THEN WrapIncompatible(v.err) ELSE NilValue,
        calls |-> <<"CompatibleTransform", "CompatibleVersion">>]

\* The characters version strings are drawn from: digits, the separator,
\* the two signs and a letter.
Alphabet == {"1", "2", ".", "-", "+", "a"}

VersionStrings == UNION {[1..n -> Alphabet] : n \in 0..MaxLen}

\* Files that differ in what _format_version holds: no key, a number, a string.
ParseDocs ==
  {NilMap, EmptyMap, MapSet(EmptyMap, VersionKey, NumberValue(3))}
    \cup {MapSet(EmptyMap, VersionKey, StringValue(s)) : s \in VersionStrings}

\* What a file of a compared pair holds under _transform and _format_version
\* (NilValue: the key is missing).
TransformSamples ==
  {NilValue, BoolValue(TRUE), BoolValue(FALSE), StringValue(<<"a">>)}

VersionSamples ==
  {NilValue, NumberValue(3)} \cup
  {StringValue(s) : s \in {<<>>, <<"1">>, <<"2">>, <<"2", ".", "1">>,
                           <<"2", ".", "9">>, <<"3", ".", "0">>,
                           <<"1", ".", "2", ".", "3">>, <<"a", ".", "b">>,
                           <<"-", "1">>, <<"1", ".">>}}

WithKey(data, key, value) ==
  IF value = NilValue THEN data ELSE MapSet(data, key, value)

CompatDocs ==
  {WithKey(WithKey(EmptyMap, TransformKey, t), VersionKey, v) :
     t \in TransformSamples, v \in VersionSamples}

DoParseFormatVersion ==
  /\ result' = [op |-> "ParseFormatVersion",
                err |-> ParseFormatVersion(filedata).err,
                major |-> ParseFormatVersion(filedata).major,
                minor |-> ParseFormatVersion(filedata).minor]
  /\ UNCHANGED <<toolInfo, fileVars, raceVars>>

DoCompatibleTransform ==
  /\ result' = [op |-> "CompatibleTransform",
                panicked |-> CompatibleTransform(filedata, otherdata).panicked,
                err |-> CompatibleTransform(filedata, otherdata).err]
  /\ UNCHANGED <<toolInfo, fileVars, raceVars>>

DoCompatibleVersion ==
  /\ result' = [op |-> "CompatibleVersion",
                panicked |-> CompatibleVersion(filedata, otherdata).panicked,
                err |-> CompatibleVersion(filedata, otherdata).err]
  /\ UNCHANGED <<toolInfo, fileVars, raceVars>>

DoCompatibleFile ==
  /\ result' = [op |-> "CompatibleFile",
                panicked |-> CompatibleFile(filedata, otherdata).panicked,
                err |-> CompatibleFile(filedata, otherdata).err,
                calls |-> CompatibleFile(filedata, otherdata).calls]
  /\ UNCHANGED <<toolInfo, fileVars, raceVars>>

\* The files are loaded before the checks run: any file to parse, or any
\* pair of files to compare.
InitCompat ==
  /\ toolInfo = NoToolInfo
  /\ result = NoResult
  /\ \/ filedata \in ParseDocs /\ otherdata = NilMap
     \/ filedata \in CompatDocs /\ otherdata \in CompatDocs
  /\ heap = <<>>
  /\ hist = NilValue
  /\ serialized = TRUE
  /\ pc = <<>>
  /\ callArgs = <<>>

NextCompat ==
  \/ DoParseFormatVersion
  \/ DoCompatibleTransform
  \/ DoCompatibleVersion
  \/ DoCompatibleFile

SpecCompat == InitCompat /\ [][NextCompat]_vars

\* One or more characters, all decimal digits.
DigitsOnly(s) == Len(s) >= 1 /\ \A i \in 1..Len(s) : s[i] \in DOMAIN DigitValue

\* "integer" or "integer.integer".
IsVersionForm(s) ==
  \/ DigitsOnly(s)
  \/ \E k \in 1..Len(s) :
       /\ s[k] = "."
       /\ DigitsOnly(SubSeq(s, 1, k - 1))
       /\ DigitsOnly(SubSeq(s, k + 1, Len(s)))

\* The (major, minor) a string of that form denotes.
VersionOf(s) ==
  IF DigitsOnly(s) THEN <<DecimalValue(s), 0>>
  ELSE LET k == CHOOSE i \in 1..Len(s) : s[i] = "." IN
       <<DecimalValue(SubSeq(s, 1, k - 1)), DecimalValue(SubSeq(s, k + 1, Len(s)))>>

\* C4: ParseFormatVersion succeeds if and only if _format_version is
\* present, is a string and is one or two dot-separated segments of decimal
\* digits only; it then returns (major, minor), minor 0 when omitted. Every
\* other value, a segment with a leading '-' or '+' included, is an error.
C4_ParseVersion ==
  result.op = "ParseFormatVersion" =>
    LET value == Lookup(filedata, VersionKey)
        wellFormed == value.t = "string" /\ IsVersionForm(value.v)
    IN /\ result.err = NilValue <=> wellFormed
       /\ wellFormed => <<result.major, result.minor>> = VersionOf(value.v)

\* C4 without the signs: on a string that holds no '-' and no '+', and on
\* every value that is no string, ParseFormatVersion does as C4 says.
C4_ParseUnsigned ==
  result.op = "ParseFormatVersion" =>
    LET value == Lookup(filedata, VersionKey)
        wellFormed == value.t = "string" /\ IsVersionForm(value.v)
        unsigned == value.t = "string" =>
                      \A i \in 1..Len(value.v) : value.v[i] \notin {"-", "+"}
    IN unsigned =>
         /\ result.err = NilValue <=> wellFormed
         /\ wellFormed => <<result.major, result.minor>> = VersionOf(value.v)

\* The _transform flag of a file: true when the key is missing.
ResolvedTransform(data) ==
  IF HasKey(data, TransformKey) THEN Lookup(data, TransformKey) ELSE BoolValue(TRUE)

\* Both flags resolve to booleans, and to the same one.
TransformFlagsAgree(data1, data2) ==
  /\ ResolvedTransform(data1).t = "bool"
  /\ ResolvedTransform(data2).t = "bool"
  /\ ResolvedTransform(data1).v = ResolvedTransform(data2).v

Parses(data) == ParseFormatVersion(data).err = NilValue

\* Neither file declares a version, or the only one declared parses, or
\* both parse to the same major.
VersionsAgree(data1, data2) ==
  IF ~HasKey(data1, VersionKey) /\ ~HasKey(data2, VersionKey) THEN TRUE
  ELSE IF ~HasKey(data1, VersionKey) THEN Parses(data2)
  ELSE IF ~HasKey(data2, VersionKey) THEN Parses(data1)
  ELSE /\ Parses(data1)
       /\ Parses(data2)
       /\ ParseFormatVersion(data1).major = ParseFormatVersion(data2).major

C6_TransformFirst ==
  (result.op = "CompatibleFile" /\ ~filedata.isNil /\ ~otherdata.isNil) =>
    LET t == CompatibleTransform(filedata, otherdata).err
        v == CompatibleVersion(filedata, otherdata).err
    IN /\ t # NilValue =>
            /\ result.calls = <<"CompatibleTransform">>
            /\ result.err = [msg |-> "files are incompatible", wrapped |-> t]
       /\ t = NilValue =>
            /\ result.calls = <<"CompatibleTransform", "CompatibleVersion">>
            /\ v # NilValue =>
                 result.err = [msg |-> "files are incompatible", wrapped |-> v]
            /\ v = NilValue => result.err = NilValue

\* C6's case: both checks would fail, and the transform error was returned.
C6_Witness ==
  /\ result.op = "CompatibleFile"
  /\ ~filedata.isNil
  /\ ~otherdata.isNil
  /\ CompatibleVersion(filedata, otherdata).err # NilValue
  /\ result.err # NilValue
  /\ result.err.wrapped = TransformError
  /\ result.calls = <<"CompatibleTransform">>

----------------------------------------------------------------------------
(* Tracking the history of a file. Slices and maps are objects of the heap, *)
(* held by address, so that two values can share one object.                *)

SliceObject(elems) == [kind |-> "slice", elems |-> elems]

MapObject(kv) == [kind |-> "map", kv |-> kv]

\* The heap with one more object, and the reference to it.
Allocate(h, object) == [heap |-> Append(h, object), value |-> RefValue(Len(h) + 1)]

\* What a value holds, every reference followed.
RECURSIVE Deref(_, _)
Deref(h, v) ==
  IF v.t # "ref" THEN v
  ELSE IF h[v.a].kind = "slice"
  THEN [kind |-> "slice",
        elems |-> [i \in 1..Len(h[v.a].elems) |-> Deref(h, h[v.a].elems[i])]]
  ELSE [kind |-> "map",
        kv |-> [k \in DOMAIN h[v.a].kv |-> Deref(h, h[v.a].kv[k])]]

\* jsonbasics.ToArray: the value as a slice (the same slice), or an error.
ToArray(h, v) ==
  IF v.t = "ref" /\ h[v.a].kind = "slice"
  THEN [ok |-> TRUE, value |-> v]
  ELSE [ok |-> FALSE, value |-> NilValue]

\* jsonbasics.DeepCopyArray: a new slice whose elements are copies, nested
\* slices and maps copied too.
RECURSIVE DeepCopyValue(_, _), DeepCopyElems(_, _), DeepCopyFields(_, _, _)
DeepCopyValue(h, v) ==
  IF v.t # "ref" THEN [heap |-> h, value |-> v]
  ELSE IF h[v.a].kind = "slice"
  THEN LET c == DeepCopyElems(h, h[v.a].elems) IN
       Allocate(c.heap, SliceObject(c.elems))
  ELSE LET c == DeepCopyFields(h, h[v.a].kv, DOMAIN h[v.a].kv) IN
       Allocate(c.heap, MapObject(c.kv))

DeepCopyElems(h, elems) ==
  IF Len(elems) = 0 THEN [heap |-> h, elems |-> <<>>]
  ELSE LET first == DeepCopyValue(h, Head(elems))
           rest == DeepCopyElems(first.heap, Tail(elems))
       IN [heap |-> rest.heap, elems |-> <<first.value>> \o rest.elems]

DeepCopyFields(h, kv, keys) ==
  IF keys = {} THEN [heap |-> h, kv |-> NoEntries]
  ELSE LET k == CHOOSE x \in keys : TRUE
           one == DeepCopyValue(h, kv[k])
           rest == DeepCopyFields(one.heap, kv, keys \ {k})
       IN [heap |-> rest.heap,
           kv |-> [x \in DOMAIN rest.kv \cup {k} |->
                     IF x = k THEN one.value ELSE rest.kv[x]]]

DeepCopyArray(h, slice) == DeepCopyValue(h, slice)

\* trackInfo of HistoryGet: the stored slice itself, or a new one-element
\* slice around a stored value that is no slice.
TrackInfo(h, data) ==
  LET stored == Lookup(data, HistoryKey) IN
  IF ToArray(h, stored).ok
  THEN [heap |-> h, value |-> ToArray(h, stored).value]
  ELSE Allocate(h, SliceObject(<<stored>>))

\* HistoryGet returning trackInfo itself.
HistoryGetNoCopy(h, data) ==
  IF data.isNil \/ Lookup(data, HistoryKey) = NilValue
  THEN Allocate(h, SliceObject(<<>>))
  ELSE TrackInfo(h, data)

\* HistoryGet: the heap after the call and the slice returned.
HistoryGet(h, data) ==
  IF data.isNil \/ Lookup(data, HistoryKey) = NilValue
  THEN Allocate(h, SliceObject(<<>>))
  ELSE LET trackInfo == TrackInfo(h, data) IN
       DeepCopyArray(trackInfo.heap, trackInfo.value)

\* HistoryClear: the file after the call.
HistoryClear(data) == MapDelete(data, HistoryKey)

\* HistorySet without the closing HistoryClear.
HistorySetKeep(data, historyArray) ==
  IF historyArray = NilValue
  THEN [panicked |-> FALSE, data |-> HistoryClear(data)]
  ELSE IF data.isNil
  THEN [panicked |-> TRUE, data |-> data]
  ELSE [panicked |-> FALSE, data |-> MapSet(data, HistoryKey, historyArray)]

\* HistorySet: the file after the call. Storing into the nil map panics.
HistorySet(data, historyArray) ==
  IF historyArray = NilValue
  THEN [panicked |-> FALSE, data |-> HistoryClear(data)]
  ELSE IF data.isNil
  THEN [panicked |-> TRUE, data |-> data]
  ELSE [panicked |-> FALSE,
        data |-> HistoryClear(MapSet(data, HistoryKey, historyArray))]

\* append(slice, x) of Go, whose result replaces the slice it was made from:
\* a new backing array that ends with x. (An append in place writes beyond
\* the length of every other slice that shares the array, which none of
\* them can see.)
GoAppend(h, slice, x) ==
  IF slice = NilValue
  THEN Allocate(h, SliceObject(<<x>>))
  ELSE Allocate(h, SliceObject(Append(h[slice.a].elems, x)))

\* HistoryAppend: the heap and the file after the call; got is the slice
\* HistoryGet returned and handed the slice passed to HistorySet.
HistoryAppend(h, data, newEntry) ==
  LET got == HistoryGet(h, data)
      appended == GoAppend(got.heap, got.value, newEntry)
      set == HistorySet(data, appended.value)
  IN [heap |-> appended.heap, data |-> set.data, panicked |-> set.panicked,
      got |-> got.value, handed |-> appended.value]

\* An entry as HistoryNewEntry builds it, and its fields.
EntryFields == [tool |-> StringValue(<<"k">>), command |-> StringValue(<<"m">>)]

LegacyString == StringValue(<<"s">>)

OtherString == StringValue(<<"z">>)

\* The files the history functions are handed, each with the heap its
\* _ignore value lives in: no history, a single string, a single map, a
\* slice of a string and a map, an empty slice; and the nil map.
VersionedFile == MapSet(EmptyMap, VersionKey, StringValue(<<"3", ".", "0">>))

HistoryFiles ==
  { [heap |-> <<>>, data |-> VersionedFile],
    [heap |-> <<>>, data |-> MapSet(VersionedFile, HistoryKey, LegacyString)],
    [heap |-> <<MapObject(EntryFields)>>,
     data |-> MapSet(VersionedFile, HistoryKey, RefValue(1))],
    [heap |-> <<MapObject(EntryFields), SliceObject(<<LegacyString, RefValue(1)>>)>>,
     data |-> MapSet(VersionedFile, HistoryKey, RefValue(2))],
    [heap |-> <<SliceObject(<<>>)>>,
     data |-> MapSet(VersionedFile, HistoryKey, RefValue(1))],
    [heap |-> <<>>, data |-> NilMap] }

DoHistoryGet ==
  LET got == HistoryGet(heap, filedata) IN
  /\ Len(got.heap) <= MaxHeap
  /\ heap' = got.heap
  /\ hist' = got.value
  /\ result' = [op |-> "HistoryGet", value |-> got.value]
  /\ UNCHANGED <<toolInfo, filedata, otherdata, raceVars>>

\* HistorySet with nil, with the caller's slice, or with a slice made for it.
DoHistorySet(arg) ==
  LET made == CASE arg = "nil" -> [heap |-> heap, value |-> NilValue]
                [] arg = "hist" -> [heap |-> heap, value |-> hist]
                [] arg = "empty" -> Allocate(heap, SliceObject(<<>>))
                [] arg = "one" -> Allocate(heap, SliceObject(<<LegacyString>>))
      set == HistorySet(filedata, made.value)
  IN /\ Len(made.heap) <= MaxHeap
     /\ heap' = made.heap
     /\ filedata' = set.data
     /\ result' = [op |-> "HistorySet", panicked |-> set.panicked,
                   historyArray |-> made.value]
     /\ UNCHANGED <<toolInfo, otherdata, hist, raceVars>>

\* HistoryAppend with nil, a string, or a new entry map.
DoHistoryAppend(entry) ==
  LET made == CASE entry = "nil" -> [heap |-> heap, value |-> NilValue]
                [] entry = "string" -> [heap |-> heap, value |-> OtherString]
                [] entry = "map" -> Allocate(heap, MapObject(EntryFields))
      app == HistoryAppend(made.heap, filedata, made.value)
  IN /\ Len(app.heap) <= MaxHeap
     /\ heap' = app.heap
     /\ filedata' = app.data
     /\ result' = [op |-> "HistoryAppend", panicked |-> app.panicked,
                   newEntry |-> Deref(app.heap, made.value),
                   got |-> Deref(app.heap, app.got),
                   handed |-> Deref(app.heap, app.handed)]
     /\ UNCHANGED <<toolInfo, otherdata, hist, raceVars>>

DoHistoryClear ==
  /\ filedata' = HistoryClear(filedata)
  /\ result' = [op |-> "HistoryClear", panicked |-> FALSE]
  /\ UNCHANGED <<toolInfo, otherdata, heap, hist, raceVars>>

\* The caller works on the slice HistoryGet returned: hist = append(hist, x)
CallerAppend(x) ==
  /\ hist # NilValue
  /\ Len(heap) < MaxHeap
  /\ heap' = GoAppend(heap, hist, x).heap
  /\ hist' = GoAppend(heap, hist, x).value
  /\ result' = [op |-> "caller: append"]
  /\ UNCHANGED <<toolInfo, filedata, otherdata, raceVars>>

\* hist[i] = x
CallerReplace(i, x) ==
  /\ hist # NilValue
  /\ i \in 1..Len(heap[hist.a].elems)
  /\ heap' = [heap EXCEPT ![hist.a].elems[i] = x]
  /\ result' = [op |-> "caller: replace"]
  /\ UNCHANGED <<toolInfo, filedata, otherdata, hist, raceVars>>

\* hist[i].(map[string]interface{})[key] = x
CallerSetField(i, key, x) ==
  /\ hist # NilValue
  /\ i \in 1..Len(heap[hist.a].elems)
  /\ heap[hist.a].elems[i].t = "ref"
  /\ LET a == heap[hist.a].elems[i].a IN
     /\ heap[a].kind = "map"
     /\ heap' = [heap EXCEPT ![a].kv =
                   [k \in DOMAIN heap[a].kv \cup {key} |->
                      IF k = key THEN x ELSE heap[a].kv[k]]]
  /\ result' = [op |-> "caller: set field"]
  /\ UNCHANGED <<toolInfo, filedata, otherdata, hist, raceVars>>

InitHistory ==
  /\ toolInfo = NoToolInfo
  /\ result = NoResult
  /\ \E f \in HistoryFiles : heap = f.heap /\ filedata = f.data
  /\ otherdata = NilMap
  /\ hist = NilValue
  /\ serialized = TRUE
  /\ pc = <<>>
  /\ callArgs = <<>>

NextHistory ==
  \/ DoHistoryGet
  \/ \E arg \in {"nil", "hist", "empty", "one"} : DoHistorySet(arg)
  \/ \E entry \in {"nil", "string", "map"} : DoHistoryAppend(entry)
  \/ DoHistoryClear
  \/ \E x \in {OtherString} : CallerAppend(x)
  \/ \E i \in 1..2, x \in {OtherString} : CallerReplace(i, x)
  \/ \E i \in 1..2, key \in {"tool", "input"}, x \in {OtherString} :
       CallerSetField(i, key, x)

SpecHistory == InitHistory /\ [][NextHistory]_vars

EmptyHistory == [kind |-> "slice", elems |-> <<>>]

\* What HistoryGet would return on the file, every reference followed.
HistoryOf(h, data) == Deref(HistoryGet(h, data).heap, HistoryGet(h, data).value)

\* C7: history never persists. After HistorySet (with nil, an empty or a
\* non-empty slice), HistoryAppend or HistoryClear the file has no _ignore
\* key and a HistoryGet on it returns an empty slice; HistoryClear on a
\* file without the key succeeds and changes nothing.
C7_NeverPersists ==
  [][ result'.op \in {"HistorySet", "HistoryAppend", "HistoryClear"} =>
        /\ ~HasKey(filedata', HistoryKey)
        /\ HistoryOf(heap', filedata') = EmptyHistory
        /\ (result'.op = "HistoryClear" /\ ~HasKey(filedata, HistoryKey)) =>
              /\ ~result'.panicked
              /\ filedata' = filedata
              /\ heap' = heap
    ]_vars

\* C7's case: HistoryAppend handed a history of two or more entries to
\* HistorySet, and the file holds none of it.
C7_Witness ==
  /\ result.op = "HistoryAppend"
  /\ ~result.panicked
  /\ 2 \in DOMAIN result.handed.elems
  /\ ~HasKey(filedata, HistoryKey)

\* The history a file holds, as a slice: empty without a value, the stored
\* slice, or the one-element slice of a stored value that is no slice.
StoredHistory(h, data) ==
  LET stored == Lookup(data, HistoryKey) IN
  IF data.isNil \/ stored = NilValue THEN EmptyHistory
  ELSE IF stored.t = "ref" /\ h[stored.a].kind = "slice" THEN Deref(h, stored)
  ELSE [kind |-> "slice", elems |-> <<Deref(h, stored)>>]

\* C8: HistoryGet is read-only and returns a copy. The call leaves the file
\* and what _ignore holds unchanged and returns the stored history (a
\* single value that is no slice wrapped into one); appending to the
\* returned slice, replacing an element of it or changing a field of a
\* nested element leaves what the file holds under _ignore unchanged.
C8_GetReturnsCopy ==
  [][ result'.op \in {"HistoryGet", "caller: append", "caller: replace",
                      "caller: set field"} =>
        /\ filedata' = filedata
        /\ Deref(heap', Lookup(filedata', HistoryKey))
             = Deref(heap, Lookup(filedata, HistoryKey))
        /\ result'.op = "HistoryGet" =>
             /\ hist' = result'.value
             /\ Deref(heap', hist') = StoredHistory(heap, filedata)
    ]_vars

\* C8's case: the file holds a single map under _ignore, HistoryGet
\* returned it wrapped, and the caller has changed a field of the returned
\* element: the returned history now differs from the stored one.
C8_Witness ==
  /\ result.op = "caller: set field"
  /\ Lookup(filedata, HistoryKey).t = "ref"
  /\ heap[Lookup(filedata, HistoryKey).a].kind = "map"
  /\ Deref(heap, hist) # StoredHistory(heap, filedata)
  /\ Deref(heap, Lookup(filedata, HistoryKey)) = MapObject(EntryFields)

\* C9: HistoryAppend skips a nil entry: with a nil entry the slice it hands
\* to HistorySet is the one HistoryGet returned; with any other entry it is
\* that slice with the entry added as its last element.
C9_AppendSkipsNil ==
  result.op = "HistoryAppend" =>
    IF result.newEntry = NilValue
    THEN result.handed = result.got
    ELSE result.handed =
           [kind |-> "slice", elems |-> Append(result.got.elems, result.newEntry)]

\* C9 for an entry that is not nil: the slice handed to HistorySet is the
\* one HistoryGet returned with the entry added as its last element.
C9_AppendsNonNil ==
  (result.op = "HistoryAppend" /\ result.newEntry # NilValue) =>
    result.handed =
      [kind |-> "slice", elems |-> Append(result.got.elems, result.newEntry)]

----------------------------------------------------------------------------
(* Two callers of ToolVersionSet at once. The function takes no lock: its   *)
(* test of toolInfo.name and its three assignments are separate steps.     *)

Callers == {1, 2}

\* A caller that is inside ToolVersionSet, past the test.
Writing(p) == pc[p] \in {"name", "version", "commit"}

\* The test of ToolVersionSet. When the embedding application serializes
\* the calls, a call starts only while no other call is under way.
SetCheck(p) ==
  /\ pc[p] = "idle"
  /\ serialized => \A q \in Callers \ {p} : ~Writing(q)
  /\ pc' = [pc EXCEPT ![p] =
              IF ToolVersionSetPanics(toolInfo, callArgs[p][1])
              THEN "panicked" ELSE "name"]
  /\ UNCHANGED <<toolInfo, result, fileVars, serialized, callArgs>>

\* toolInfo.name = name
SetName(p) ==
  /\ pc[p] = "name"
  /\ toolInfo' = [toolInfo EXCEPT !.name = callArgs[p][1]]
  /\ pc' = [pc EXCEPT ![p] = "version"]
  /\ UNCHANGED <<result, fileVars, serialized, callArgs>>

\* toolInfo.version = version
SetVersion(p) ==
  /\ pc[p] = "version"
  /\ toolInfo' = [toolInfo EXCEPT !.version = callArgs[p][2]]
  /\ pc' = [pc EXCEPT ![p] = "commit"]
  /\ UNCHANGED <<result, fileVars, serialized, callArgs>>

\* toolInfo.commit = commit
SetCommit(p) ==
  /\ pc[p] = "commit"
  /\ toolInfo' = [toolInfo EXCEPT !.commit = callArgs[p][3]]
  /\ pc' = [pc EXCEPT ![p] = "returned"]
  /\ UNCHANGED <<result, fileVars, serialized, callArgs>>

NonEmptyNames == Names \ {<<>>}

InitRace ==
  /\ toolInfo = NoToolInfo
  /\ result = NoResult
  /\ filedata = EmptyMap
  /\ otherdata = EmptyMap
  /\ heap = <<>>
  /\ hist = NilValue
  /\ serialized \in BOOLEAN
  /\ pc = [p \in Callers |-> "idle"]
  /\ callArgs \in [Callers -> NonEmptyNames \X Versions \X Commits]

NextRace ==
  \E p \in Callers :
    \/ SetCheck(p)
    \/ SetName(p)
    \/ SetVersion(p)
    \/ SetCommit(p)

SpecRace == InitRace /\ [][NextRace]_vars

BothFinished == \A p \in Callers : pc[p] \in {"returned", "panicked"}

\* At most one call returned normally, and the identity is wholly its own.
OneWinner ==
  /\ Cardinality({p \in Callers : pc[p] = "returned"}) <= 1
  /\ \A p \in Callers : pc[p] = "returned" => Triple(toolInfo) = callArgs[p]

\* C10: the write-once rule holds under interleaving: of two concurrent
\* ToolVersionSet calls with non-empty names and no serialization, at most
\* one succeeds and the stored triple is entirely that call's.
C10_WriteOnceInterleaved == BothFinished => OneWinner

\* C10 as amended: when the embedding application serializes the two calls,
\* at most one succeeds and the stored triple is entirely that call's.
C10_WriteOnceSerialized == (serialized /\ BothFinished) => OneWinner

\* C10's case: under serialization one call returned, the other panicked
\* on the test, and the identity is the first call's and not the second's.
C10_Witness ==
  /\ serialized
  /\ pc[1] = "panicked"
  /\ pc[2] = "returned"
  /\ callArgs[1] # callArgs[2]
  /\ Triple(toolInfo) = callArgs[2]

====
